---------------------------- MODULE Spec2Model ----------------------------
(***************************************************************************)
(* A model of optree's PyTreeSpec: the post-order traversal of Node        *)
(* records, UnflattenImpl (reconstruct), ToString (render), operator==     *)
(* (equal) and ToPicklable / FromPicklableImpl (encode / decode).          *)
(*                                                                         *)
(* Python objects are modelled by records of one shape, so that any two of *)
(* them can be compared.  A py::object handle is [tag, keys, id]:          *)
(*   tag "null"   the handle holds no object (ptr() == nullptr)            *)
(*   tag "None"   the Python None object                                   *)
(*   tag "list"   a list of keys (a dict node's node_data)                 *)
(*   tag "type"   a type object, named by id                               *)
(*   tag "tuple"  the pair (factory, keys) a defaultdict node carries      *)
(*   tag "blob"   any other object, named by id                            *)
(***************************************************************************)
EXTENDS Integers, Sequences, FiniteSets, TLC

VARIABLES
    pc,          \* which operation is running
    origin,      \* how the held PyTreeSpec was made: "flatten" or "picklable"
    tree,        \* the structure that was flattened (origin = "flatten")
    traversal,   \* PyTreeSpec::traversal of the held PyTreeSpec
    picklable,   \* the list handed to FromPicklable / returned by ToPicklable
    other,       \* traversal of a second PyTreeSpec (the right side of ==)
    leaves,      \* UnflattenImpl: the leaves argument
    agenda,      \* UnflattenImpl: the stack of built objects
    it,          \* UnflattenImpl: the leaf cursor (1-based index into leaves)
    leaf_count,  \* UnflattenImpl: leaves taken so far
    strs,        \* ToString: its agenda, the stack of text fragments
    idx,         \* position of the range-for over traversal (next node)
    outcome,     \* what the finished operation returned or threw
    threads      \* the locals of each thread at work on the held PyTreeSpec

vars == <<pc, origin, tree, traversal, picklable, other, leaves, agenda, it,
          leaf_count, strs, idx, outcome, threads>>

-----------------------------------------------------------------------------
(* Bounds of the model. *)

\* nodes of a flattened structure over every kind
MaxNodes == 3
\* nodes of a flattened structure of leaves, None, tuples and lists only
MaxPlainNodes == 5
\* children of one container of a flattened structure
MaxArity == 2
\* records of a list handed to FromPicklable
MaxRecords == 2
\* length of the leaf sequence handed to Unflatten
MaxLeaves == 3
\* records of each of two lists whose PyTreeSpecs are compared
MaxPairRecords == 1
\* threads at work on one shared PyTreeSpec
MaxThreads == 2
\* nodes of the structure whose PyTreeSpec the threads share
MaxSharedNodes == 2
\* length of the leaf sequence a thread hands to Unflatten
MaxSharedLeaves == 1
\* arity of a node handed to MakeNode on its own
MaxNodeArity == 1

-----------------------------------------------------------------------------
(* Python objects. *)

Null == [tag |-> "null", keys |-> <<>>, id |-> ""]
PyNone == [tag |-> "None", keys |-> <<>>, id |-> ""]
PyList(ks) == [tag |-> "list", keys |-> ks, id |-> ""]
PyType(name) == [tag |-> "type", keys |-> <<>>, id |-> name]
PyPair(factory, ks) == [tag |-> "tuple", keys |-> ks, id |-> factory]
PyBlob(name) == [tag |-> "blob", keys |-> <<>>, id |-> name]

\* the keys a mapping of n entries is given, in order
KeyNames == <<"a", "b", "c", "d">>
Keys(n) == SubSeq(KeyNames, 1, n)

\* namedtuple types and their _fields
NamedTupleTypes == {"Wrap", "Point"}
Fields(name) ==
    CASE name = "Wrap" -> <<"x">>
      [] name = "Point" -> <<"x", "y">>
      [] OTHER -> <<>>


-----------------------------------------------------------------------------
(* The type registry (PyTreeTypeRegistry), an external collaborator.  A    *)
(* Registration is named by the type it registers; "nullptr" is no         *)
(* registration.                                                           *)

\* the types registered as Custom, each named by its __name__
Registry == {"OrderedDict", "defaultdict", "deque", "Pair"}
nullptr == "nullptr"
Lookup(type) == IF type.tag = "type" /\ type.id \in Registry THEN type.id ELSE nullptr

-----------------------------------------------------------------------------
(* PyTreeSpec::Node and the PyTreeKind enumeration.  "Invalid" stands for  *)
(* every value of the enumeration's integer type that names no enumerator. *)

PyTreeKind == {"Leaf", "None", "Tuple", "List", "Dict", "NamedTuple", "Custom"}

Node(kind, arity, node_data, custom, num_leaves, num_nodes) ==
    [kind |-> kind, arity |-> arity, node_data |-> node_data, custom |-> custom,
     num_leaves |-> num_leaves, num_nodes |-> num_nodes]

num_leaves(t) == IF t = <<>> THEN 0 ELSE t[Len(t)].num_leaves

num_nodes(t) == Len(t)

-----------------------------------------------------------------------------
(* Runtime values (py::object).  k is the concrete kind of the object, v   *)
(* the identity of a leaf, t the name of its type where the kind does not  *)
(* fix it, d its keys or auxiliary data, c its children in order.          *)

Value(k, v, t, d, c) == [k |-> k, v |-> v, t |-> t, d |-> d, c |-> c]
LeafV(i) == Value("leaf", i, "", Null, <<>>)
NoneV == Value("None", 0, "", Null, <<>>)
TupleV(c) == Value("tuple", 0, "", Null, c)
ListV(c) == Value("list", 0, "", Null, c)
DictV(ks, c) == Value("dict", 0, "", PyList(ks), c)
NamedTupleV(type, c) == Value("namedtuple", 0, type, Null, c)
CustomV(type, aux, c) == Value("custom", 0, type, aux, c)

\* position of key in ks, 0 when absent
RECURSIVE IndexOf(_, _, _)
IndexOf(ks, key, i) ==
    IF i > Len(ks) THEN 0
    ELSE IF ks[i] = key THEN i ELSE IndexOf(ks, key, i + 1)

\* dict[key] = child: a new key is appended, a key already there keeps its
\* place and takes the new value
DictSet(dict, key, child) ==
    LET at == IndexOf(dict.d.keys, key, 1)
    IN  IF at = 0
        THEN DictV(Append(dict.d.keys, key), Append(dict.c, child))
        ELSE DictV(dict.d.keys, [dict.c EXCEPT ![at] = child])

\* the loop of MakeNode's Dict case, from entry i on
RECURSIVE DictFill(_, _, _, _, _)
DictFill(dict, keys, children, arity, i) ==
    IF i > arity THEN dict
    ELSE DictFill(DictSet(dict, keys[i], children[i]), keys, children, arity, i + 1)

\* what a callee hands back: err = "" and the value, or the error it threw
Ok(val) == [err |-> "", val |-> val]
Throw(err) == [err |-> err, val |-> NoneV]

\* Registration::from_iterable(node_data, children): the recompose function
\* of the registry, its return value taken as it is
from_iterable(custom, node_data, children) == CustomV(custom, node_data, children)

\* calling the type held by a NamedTuple node with the children as arguments:
\* a namedtuple type takes exactly as many arguments as it has fields
CallType(type, children) ==
    IF type.tag = "type" /\ type.id \in NamedTupleTypes
       /\ Len(Fields(type.id)) = Len(children)
    THEN Ok(NamedTupleV(type.id, children))
    ELSE Throw("PyError")

MakeNode(node, children) ==
    IF Len(children) # node.arity THEN Throw("ArityMismatch")
    ELSE CASE node.kind = "Leaf" -> Throw("NotImplemented")
           [] node.kind = "None" -> Ok(NoneV)
           [] node.kind = "Tuple" -> Ok(TupleV(children))
           [] node.kind = "NamedTuple" -> CallType(node.node_data, children)
           [] node.kind = "List" -> Ok(ListV(children))
           [] node.kind = "Dict" ->
                IF Len(node.node_data.keys) < node.arity
                THEN Throw("PyError")
                ELSE Ok(DictFill(DictV(<<>>, <<>>), node.node_data.keys,
                                 children, node.arity, 1))
           [] node.kind = "Custom" ->
                IF node.custom = nullptr THEN Throw("Crash")
                ELSE Ok(from_iterable(node.custom, node.node_data, children))
           [] OTHER -> Throw("Unreachable")

\* Every outcome of MakeNode.  The Custom case calls from_iterable through
\* node.custom without testing it: with no registration the call goes
\* through a null pointer, which is undefined; the process crashes or runs
\* on with whatever the call yields ("?").  No PyTreeSpec made by flatten or
\* FromPicklable holds such a node, so UnflattenNode uses MakeNode as it is.
MakeNodeOutcomes(node, children) ==
    {MakeNode(node, children)}
    \cup (IF node.kind = "Custom" /\ node.custom = nullptr /\ Len(children) = node.arity
          THEN {Ok(CustomV("?", node.node_data, children))}
          ELSE {})

-----------------------------------------------------------------------------
(* The post-order stack machines.  Top(ag, n) is the span of the last n    *)
(* items of a stack, Erase(ag, n) the stack without them.                  *)

Top(ag, n) == SubSeq(ag, Len(ag) - n + 1, Len(ag))
Erase(ag, n) == SubSeq(ag, 1, Len(ag) - n)

\* UnflattenNode with the children of a container left on the agenda under
\* the object built from them (agenda.resize dropped)
UnflattenNode_NoResize(node, ag, cursor, count, lv) ==
    LET same(e) == [err |-> e, agenda |-> ag, it |-> cursor, leaf_count |-> count]
    IN  IF Len(ag) < node.arity THEN same("MalformedSpec")
        ELSE IF node.kind \in {"Leaf", "None"}
        THEN IF cursor > Len(lv) THEN same("ExhaustedLeaves")
             ELSE [err |-> "", agenda |-> Append(ag, lv[cursor]),
                   it |-> cursor + 1, leaf_count |-> count + 1]
        ELSE IF node.kind \in {"Tuple", "NamedTuple", "List", "Dict", "Custom"}
        THEN LET out == MakeNode(node, IF node.arity > 0 THEN Top(ag, node.arity) ELSE <<>>)
             IN  IF out.err # "" THEN same(out.err)
                 ELSE [err |-> "", agenda |-> Append(ag, out.val),
                       it |-> cursor, leaf_count |-> count]
        ELSE same("Unreachable")

\* One pass of the loop body of UnflattenImpl over `node`: the error thrown
\* (err = "" when none) and the locals after it.
UnflattenNode(node, ag, cursor, count, lv) ==
    LET same(e) == [err |-> e, agenda |-> ag, it |-> cursor, leaf_count |-> count]
    IN  IF Len(ag) < node.arity THEN same("MalformedSpec")
        ELSE IF node.kind \in {"Leaf", "None"}
        THEN IF cursor > Len(lv) THEN same("ExhaustedLeaves")
             ELSE [err |-> "", agenda |-> Append(ag, lv[cursor]),
                   it |-> cursor + 1, leaf_count |-> count + 1]
        ELSE IF node.kind \in {"Tuple", "NamedTuple", "List", "Dict", "Custom"}
        THEN LET size == Len(ag)
                 span == IF node.arity > 0 THEN Top(ag, node.arity) ELSE <<>>
                 out == MakeNode(node, span)
             IN  IF out.err # "" THEN same(out.err)
                 ELSE [err |-> "", agenda |-> Append(Erase(ag, node.arity), out.val),
                       it |-> cursor, leaf_count |-> count]
        ELSE same("Unreachable")

\* The checks of UnflattenImpl after the loop.
UnflattenReturn(ag, cursor, lv) ==
    IF cursor <= Len(lv) THEN Throw("TooManyLeaves")
    ELSE IF Len(ag) # 1 THEN Throw("MalformedSpec")
    ELSE Ok(ag[Len(ag)])

-----------------------------------------------------------------------------
(* ToString.  Text is built with \o on strings.                            *)

RECURSIVE StrJoinFrom(_, _, _)
StrJoinFrom(frags, sep, i) ==
    IF i > Len(frags) THEN ""
    ELSE IF i = Len(frags) THEN frags[i]
    ELSE frags[i] \o sep \o StrJoinFrom(frags, sep, i + 1)

StrJoin(frags, sep) == StrJoinFrom(frags, sep, 1)

\* py::repr of a key and py::str of auxiliary data
repr(key) == "'" \o key \o "'"
str(obj) ==
    CASE obj.tag = "None" -> "None"
      [] obj.tag = "list" -> "[" \o StrJoin([i \in 1..Len(obj.keys) |-> repr(obj.keys[i])], ", ") \o "]"
      [] OTHER -> obj.id

\* the elements iterating an object yields, each named by its text; a pair
\* (factory, keys) yields the factory and the tuple of keys
Iterable(obj) == obj.tag \in {"list", "tuple"}
Elements(obj) ==
    IF obj.tag = "tuple"
    THEN <<obj.id, "(" \o StrJoin([i \in 1..Len(obj.keys) |-> repr(obj.keys[i])], ", ") \o ")">>
    ELSE obj.keys

\* py::len of an object: -1 stands for the TypeError of an object without one
len(obj) ==
    CASE obj.tag = "list" -> Len(obj.keys)
      [] obj.tag = "tuple" -> 2
      [] OTHER -> -1

\* The fragment *child_iter reads for the j-th key of a node whose children
\* are the span `children`.  Past the span the iterator has left the agenda:
\* the read is undefined and yields "?" when the process survives it.
Child(children, j) == IF j <= Len(children) THEN children[j] ELSE "?"

\* "key: child" entries (Dict, defaultdict), "field=child" entries
\* (NamedTuple) and "(key, child)" entries (OrderedDict), comma separated
RECURSIVE Entries(_, _, _, _)
Entries(form, names, children, j) ==
    IF j > Len(names) THEN ""
    ELSE (IF j = 1 THEN "" ELSE ", ")
         \o (CASE form = "dict" -> repr(names[j]) \o ": " \o Child(children, j)
               [] form = "fields" -> names[j] \o "=" \o Child(children, j)
               [] OTHER -> "(" \o repr(names[j]) \o ", " \o Child(children, j) \o ")")
         \o Entries(form, names, children, j + 1)

\* what one pass of a loop body of ToString hands back
Text(ag, text) == [err |-> "", strs |-> Append(ag, text)]
Fail(ag, err) == [err |-> err, strs |-> ag]

\* The Custom case of ToString: the outcomes of building `representation`
\* (err = "" and the text, or the error thrown).  node.custom->type is read
\* without a test of node.custom: with no registration the read goes through
\* a null pointer, which is undefined.
CustomRepresentation(node, frags) ==
    LET kind == node.custom
        aux == node.node_data
        children == StrJoin(frags, ", ")
        text(s) == {[err |-> "", text |-> s]}
        throw(e) == {[err |-> e, text |-> ""]}
    IN  CASE kind = nullptr -> throw("Crash") \cup text("?")
          [] kind = "OrderedDict" ->
               IF ~Iterable(aux) THEN throw("PyError")
               ELSE IF Len(Elements(aux)) > Len(frags)
               THEN throw("Crash")
                    \cup text(kind \o "([" \o Entries("pairs", Elements(aux), frags, 1) \o "])")
               ELSE text(kind \o "([" \o Entries("pairs", Elements(aux), frags, 1) \o "])")
          [] kind = "defaultdict" ->
               IF len(aux) = -1 THEN throw("PyError")
               ELSE IF len(aux) # 2 THEN throw("AuxMismatch")
               ELSE IF aux.tag # "tuple" THEN throw("PyError")
               ELSE IF Len(aux.keys) # node.arity THEN throw("AuxMismatch")
               ELSE text(kind \o "(" \o aux.id \o ", {"
                         \o Entries("dict", aux.keys, frags, 1) \o "})")
          [] kind = "deque" -> text(kind \o "([" \o children \o "])")
          [] OTHER ->
               text("CustomTreeNode(" \o kind
                    \o (IF aux.tag # "null" THEN "[" \o str(aux) \o "]" ELSE "")
                    \o ", [" \o children \o "])")

\* One pass of the loop body of ToString over `node`: the set of outcomes,
\* each the error thrown (err = "" when none) and the agenda after it.  A
\* negative arity makes agenda.end() - node.arity an iterator past the end:
\* the behaviour is undefined.
ToStringNode(node, ag) ==
    IF Len(ag) < node.arity THEN {Fail(ag, "MalformedSpec")}
    ELSE IF node.arity < 0 THEN {Fail(ag, "Crash"), Text(ag, "?")}
    ELSE
    LET frags == Top(ag, node.arity)
        children == StrJoin(frags, ", ")
        rest == Erase(ag, node.arity)
    IN  CASE node.kind = "Leaf" -> {Text(ag, "*")}
          [] node.kind = "None" -> {Text(rest, "None")}
          [] node.kind = "Tuple" ->
               {Text(rest, "(" \o children \o (IF node.arity = 1 THEN "," ELSE "") \o ")")}
          [] node.kind = "List" -> {Text(rest, "[" \o children \o "]")}
          [] node.kind = "Dict" ->
               IF len(node.node_data) = -1 THEN {Fail(ag, "PyError")}
               ELSE IF len(node.node_data) # node.arity THEN {Fail(ag, "AuxMismatch")}
               ELSE {Text(rest, "{" \o Entries("dict", node.node_data.keys, frags, 1) \o "}")}
          [] node.kind = "NamedTuple" ->
               LET type == node.node_data
               IN  IF ~(type.tag = "type" /\ type.id \in NamedTupleTypes)
                   THEN {Fail(ag, "PyError")}
                   ELSE IF Len(Fields(type.id)) # node.arity THEN {Fail(ag, "AuxMismatch")}
                   ELSE {Text(rest, type.id \o "("
                                    \o Entries("fields", Fields(type.id), frags, 1) \o ")")}
          [] node.kind = "Custom" ->
               {IF r.err # "" THEN Fail(ag, r.err) ELSE Text(rest, r.text) :
                   r \in CustomRepresentation(node, frags)}
          [] OTHER -> {Fail(ag, "Unreachable")}

\* The check of ToString after the loop.
ToStringReturn(ag) ==
    IF Len(ag) # 1 THEN [err |-> "MalformedSpec", text |-> ""]
    ELSE [err |-> "", text |-> "PyTreeSpec(" \o ag[Len(ag)] \o ")"]

-----------------------------------------------------------------------------
(* operator== *)

RECURSIVE EqualFrom(_, _, _)
EqualFrom(a, b, i) ==
    IF i > Len(a) THEN TRUE
    ELSE IF \/ a[i].kind # b[i].kind
            \/ a[i].arity # b[i].arity
            \/ (a[i].node_data.tag = "null") # (b[i].node_data.tag = "null")
            \/ a[i].custom # b[i].custom
    THEN FALSE
    ELSE IF a[i].node_data.tag # "null" /\ a[i].node_data # b[i].node_data
    THEN FALSE
    ELSE EqualFrom(a, b, i + 1)

\* Equal without the comparison of the node data (node_data.not_equal
\* dropped): lengths, kinds, arities, presence of node data and
\* registrations only
Equal_NoData(a, b) ==
    /\ Len(a) = Len(b)
    /\ \A i \in 1..Len(a) :
           /\ a[i].kind = b[i].kind
           /\ a[i].arity = b[i].arity
           /\ (a[i].node_data.tag = "null") = (b[i].node_data.tag = "null")
           /\ a[i].custom = b[i].custom

Equal(a, b) == IF Len(a) # Len(b) THEN FALSE ELSE EqualFrom(a, b, 1)

-----------------------------------------------------------------------------
(* ToPicklable and FromPicklableImpl.  A record of the picklable list is a *)
(* tuple of `size` items: the kind as an integer (named here by the kind   *)
(* it is the value of, "Invalid" when of none), the arity, the node data   *)
(* or None, the registered type or None, num_leaves and num_nodes.         *)

Record(size, kind, arity, aux, type, nl, nn) ==
    [size |-> size, kind |-> kind, arity |-> arity, aux |-> aux, type |-> type,
     num_leaves |-> nl, num_nodes |-> nn]

ToPicklable(t) ==
    [i \in 1..Len(t) |->
        Record(6, t[i].kind, t[i].arity,
               IF t[i].node_data.tag # "null" THEN t[i].node_data ELSE PyNone,
               IF t[i].custom # nullptr THEN PyType(t[i].custom) ELSE PyNone,
               t[i].num_leaves, t[i].num_nodes)]

\* FromRecord without the test of the registration found for a Custom record
\* (the throw for node.custom == nullptr dropped)
FromRecord_NoLookupCheck(t) ==
    LET node(data, custom) ==
            [err |-> "", node |-> Node(t.kind, t.arity, data, custom,
                                       t.num_leaves, t.num_nodes)]
        throw(e) == [err |-> e, node |-> Node("Leaf", 0, Null, nullptr, 0, 0)]
        data ==
            CASE t.kind = "NamedTuple" ->
                   IF t.aux.tag = "type" THEN [err |-> "", obj |-> t.aux]
                   ELSE [err |-> "TypeError", obj |-> Null]
              [] t.kind = "Dict" ->
                   IF Iterable(t.aux) THEN [err |-> "", obj |-> PyList(Elements(t.aux))]
                   ELSE [err |-> "TypeError", obj |-> Null]
              [] t.kind = "Custom" -> [err |-> "", obj |-> t.aux]
              [] OTHER ->
                   IF t.aux.tag # "None" THEN [err |-> "MalformedEncoding", obj |-> Null]
                   ELSE [err |-> "", obj |-> Null]
    IN  IF t.size # 6 THEN throw("MalformedEncoding")
        ELSE IF data.err # "" THEN throw(data.err)
        ELSE IF t.kind = "Custom"
        THEN node(data.obj, IF t.type.tag = "None" THEN nullptr ELSE Lookup(t.type))
        ELSE IF t.type.tag # "None" THEN throw("MalformedEncoding")
        ELSE node(data.obj, nullptr)

\* The loop body of FromPicklableImpl over one record: the node it appends,
\* or the error it throws.
FromRecord(t) ==
    LET node(data, custom) ==
            [err |-> "", node |-> Node(t.kind, t.arity, data, custom,
                                       t.num_leaves, t.num_nodes)]
        throw(e) == [err |-> e, node |-> Node("Leaf", 0, Null, nullptr, 0, 0)]
        data ==
            CASE t.kind = "NamedTuple" ->
                   IF t.aux.tag = "type" THEN [err |-> "", obj |-> t.aux]
                   ELSE [err |-> "TypeError", obj |-> Null]
              [] t.kind = "Dict" ->
                   IF Iterable(t.aux) THEN [err |-> "", obj |-> PyList(Elements(t.aux))]
                   ELSE [err |-> "TypeError", obj |-> Null]
              [] t.kind = "Custom" -> [err |-> "", obj |-> t.aux]
              [] OTHER ->
                   IF t.aux.tag # "None" THEN [err |-> "MalformedEncoding", obj |-> Null]
                   ELSE [err |-> "", obj |-> Null]
    IN  IF t.size # 6 THEN throw("MalformedEncoding")
        ELSE IF data.err # "" THEN throw(data.err)
        ELSE IF t.kind = "Custom"
        THEN LET custom == IF t.type.tag = "None" THEN nullptr ELSE Lookup(t.type)
             IN  IF custom = nullptr THEN throw("UnknownRegistration")
                 ELSE node(data.obj, custom)
        ELSE IF t.type.tag # "None" THEN throw("MalformedEncoding")
        ELSE node(data.obj, nullptr)

\* FromPicklableImpl from record i on, `t` the traversal built so far
RECURSIVE FromPicklableFrom(_, _, _)
FromPicklableFrom(p, t, i) ==
    IF i > Len(p) THEN [err |-> "", traversal |-> t]
    ELSE LET r == FromRecord(p[i])
         IN  IF r.err # "" THEN [err |-> r.err, traversal |-> <<>>]
             ELSE FromPicklableFrom(p, Append(t, r.node), i + 1)

FromPicklableImpl(p) == FromPicklableFrom(p, <<>>, 1)

-----------------------------------------------------------------------------
(* The flatten pass, which is not part of the sources modelled here: it is *)
(* taken from its contract.  It yields the nodes of a structure in         *)
(* post-order, each with the leaf and node totals of its subtree, and the  *)
(* leaves left to right; None is a node without leaves.                    *)

RECURSIVE FlattenSpec(_), FlattenAll(_, _), FlattenLeaves(_), LeavesOfAll(_, _)

\* the concatenated traversals of children i.. of a container
FlattenAll(c, i) ==
    IF i > Len(c) THEN <<>> ELSE FlattenSpec(c[i]) \o FlattenAll(c, i + 1)

FlattenSpec(x) ==
    LET below == FlattenAll(x.c, 1)
        nl == LET sum[i \in 0..Len(x.c)] ==
                      IF i = 0 THEN 0 ELSE sum[i - 1] + num_leaves(FlattenSpec(x.c[i]))
              IN  sum[Len(x.c)]
        node(kind, data, custom) ==
            below \o <<Node(kind, Len(x.c), data, custom, nl, 1 + Len(below))>>
    IN  CASE x.k = "leaf" -> <<Node("Leaf", 0, Null, nullptr, 1, 1)>>
          [] x.k = "None" -> <<Node("None", 0, Null, nullptr, 0, 1)>>
          [] x.k = "tuple" -> node("Tuple", Null, nullptr)
          [] x.k = "list" -> node("List", Null, nullptr)
          [] x.k = "dict" -> node("Dict", x.d, nullptr)
          [] x.k = "namedtuple" -> node("NamedTuple", PyType(x.t), nullptr)
          [] OTHER -> node("Custom", x.d, Lookup(PyType(x.t)))

LeavesOfAll(c, i) ==
    IF i > Len(c) THEN <<>> ELSE FlattenLeaves(c[i]) \o LeavesOfAll(c, i + 1)

FlattenLeaves(x) == IF x.k = "leaf" THEN <<x>> ELSE LeavesOfAll(x.c, 1)

-----------------------------------------------------------------------------
(* The structures handed to flatten: every structure of at most MaxNodes   *)
(* nodes over all kinds, and every structure of at most MaxPlainNodes      *)
(* nodes made of leaves, None, tuples and lists.  Leaves are opaque; the   *)
(* n leaves of a structure are 1..n from left to right, so that any change *)
(* of their order shows.                                                   *)

\* the containers of n children a structure is built from
Containers(rich, c) ==
    LET n == Len(c)
    IN  {TupleV(c), ListV(c)}
        \cup (IF rich
              THEN {DictV(Keys(n), c), CustomV("OrderedDict", PyList(Keys(n)), c)}
                   \cup {NamedTupleV(type, c) : type \in {ty \in NamedTupleTypes : Len(Fields(ty)) = n}}
                   \cup (IF n = 2
                         THEN {CustomV("Pair", PyBlob("aux"), c), CustomV("Pair", Null, c)}
                         ELSE {})
              ELSE {})

RECURSIVE Shapes(_, _), Forests(_, _, _)

\* the sequences of k structures with `size` nodes in all
Forests(rich, size, k) ==
    IF k = 0 THEN (IF size = 0 THEN {<<>>} ELSE {})
    ELSE UNION {{<<x>> \o f : x \in Shapes(rich, m), f \in Forests(rich, size - m, k - 1)} :
                    m \in 1..(size - (k - 1))}

\* the structures of exactly `size` nodes, every leaf written LeafV(0)
Shapes(rich, size) ==
    IF size = 1
    THEN {LeafV(0), NoneV} \cup (IF rich THEN Containers(rich, <<>>) ELSE {})
    ELSE UNION {UNION {Containers(rich, c) : c \in Forests(rich, size - 1, k)} :
                    k \in 1..(IF size - 1 < MaxArity THEN size - 1 ELSE MaxArity)}

RECURSIVE CountLeaves(_), Relabel(_, _), RelabelAll(_, _, _)

CountLeaves(x) ==
    IF x.k = "leaf" THEN 1
    ELSE LET sum[i \in 0..Len(x.c)] ==
                 IF i = 0 THEN 0 ELSE sum[i - 1] + CountLeaves(x.c[i])
         IN  sum[Len(x.c)]

\* children i.. of a container, their leaves numbered from base + 1 on
RelabelAll(c, i, base) ==
    IF i > Len(c) THEN <<>>
    ELSE <<Relabel(c[i], base)>> \o RelabelAll(c, i + 1, base + CountLeaves(c[i]))

Relabel(x, base) ==
    IF x.k = "leaf" THEN LeafV(base + 1)
    ELSE [x EXCEPT !.c = RelabelAll(x.c, 1, base)]

Trees ==
    {Relabel(x, 0) : x \in UNION ({Shapes(TRUE, n) : n \in 1..MaxNodes}
                                  \cup {Shapes(FALSE, n) : n \in 1..MaxPlainNodes})}

\* the leaf sequences handed to Unflatten: the leaves 1..m, for every m
LeafSeqs == {[i \in 1..m |-> LeafV(i)] : m \in 0..MaxLeaves}

-----------------------------------------------------------------------------
(* The lists handed to FromPicklable: every list of at most MaxRecords     *)
(* records of RecordPool.  The pool holds the record ToPicklable writes    *)
(* for a node of each kind, and records that differ from those in the      *)
(* size, the kind, the arity, the node data, the type, the keys or the     *)
(* totals, which FromPicklable is handed as well.                          *)

Plain(kind, arity, nl, nn) == Record(6, kind, arity, PyNone, PyNone, nl, nn)
Custom(type, arity, aux) == Record(6, "Custom", arity, aux, PyType(type), arity, arity + 1)

RecordPool ==
    {Plain("Leaf", 0, 1, 1), Plain("None", 0, 0, 1),
     Plain("Tuple", 1, 1, 2), Plain("List", 0, 0, 1),
     Record(6, "Dict", 1, PyList(<<"a">>), PyNone, 1, 2),
     Record(6, "NamedTuple", 1, PyType("Wrap"), PyNone, 1, 2),
     Custom("Pair", 1, PyBlob("aux")),
     Custom("OrderedDict", 1, PyList(<<"a">>)),
     Custom("defaultdict", 1, PyPair("int", <<"a">>)),
     Custom("deque", 1, PyNone)}
    \cup
    {Plain("Leaf", 0, 0, 1), Plain("None", 1, 0, 2), Plain("Tuple", 2, 2, 3),
     Record(6, "Dict", 1, PyList(<<"a", "b">>), PyNone, 1, 2),
     Record(6, "Dict", 1, PyList(<<>>), PyNone, 1, 2),
     Custom("OrderedDict", 1, PyList(<<>>)),
     Custom("OrderedDict", 0, PyList(<<"a">>)),
     Custom("defaultdict", 1, PyPair("int", <<>>))}
    \cup
    \* a tuple of 5 items; node data where the kind has none, and none where
    \* the kind has some
    {Record(5, "Leaf", 0, PyNone, PyNone, 1, 1),
     Record(6, "Leaf", 0, PyBlob("aux"), PyNone, 1, 1),
     Record(6, "List", 0, PyList(<<>>), PyNone, 0, 1),
     Record(6, "NamedTuple", 1, PyNone, PyNone, 1, 2),
     Record(6, "Dict", 0, PyNone, PyNone, 0, 1)}
    \cup
    \* a Custom record without a type or with a type that is not registered,
    \* and a record of another kind with a type
    {Record(6, "Custom", 0, PyBlob("aux"), PyNone, 0, 1),
     Record(6, "Custom", 0, PyBlob("aux"), PyType("Foo"), 0, 1),
     Record(6, "List", 0, PyNone, PyType("Pair"), 0, 1)}
    \cup
    \* an integer that names no kind, and negative arities
    {Plain("Invalid", 0, 0, 1), Plain("Leaf", -1, 1, 1), Plain("List", -1, 0, 1)}

Picklables == UNION {[1..n -> RecordPool] : n \in 0..MaxRecords}

\* the lists two PyTreeSpecs to compare are made from
PairPicklables == UNION {[1..n -> RecordPool] : n \in 0..MaxPairRecords}

-----------------------------------------------------------------------------
(* The state machine. *)

Outcome(op, err, val, text, eq) ==
    [op |-> op, err |-> err, val |-> val, text |-> text, eq |-> eq]
NoOutcome == Outcome("", "", NoneV, "", FALSE)

\* the threads that work on one shared PyTreeSpec, and the locals of one
\* that has not called anything yet
Threads == 1..MaxThreads
Idle ==
    [pc |-> "idle", leaves |-> <<>>, agenda |-> <<>>, it |-> 1, leaf_count |-> 0,
     strs |-> <<>>, result |-> <<>>, idx |-> 1, outcome |-> NoOutcome]

Init ==
    /\ pc = "start"
    /\ origin = ""
    /\ tree = NoneV
    /\ traversal = <<>>
    /\ picklable = <<>>
    /\ other = <<>>
    /\ leaves = <<>>
    /\ agenda = <<>>
    /\ it = 1
    /\ leaf_count = 0
    /\ strs = <<>>
    /\ idx = 1
    /\ outcome = NoOutcome
    /\ threads = [t \in Threads |-> Idle]

\* a PyTreeSpec is made by flattening a structure
Flatten ==
    /\ UNCHANGED threads
    /\ pc = "start"
    /\ pc' = "held"
    /\ origin' = "flatten"
    /\ \E x \in Trees :
           /\ tree' = x
           /\ traversal' = FlattenSpec(x)
    /\ UNCHANGED <<picklable, other, leaves, agenda, it, leaf_count, strs, idx, outcome>>

\* a PyTreeSpec is made by FromPicklable, which throws or returns it
FromPicklable ==
    /\ UNCHANGED threads
    /\ pc = "start"
    /\ origin' = "picklable"
    /\ \E p \in Picklables :
           LET r == FromPicklableImpl(p)
           IN  /\ picklable' = p
               /\ IF r.err # ""
                  THEN /\ pc' = "done"
                       /\ outcome' = Outcome("FromPicklable", r.err, NoneV, "", FALSE)
                       /\ UNCHANGED traversal
                  ELSE /\ pc' = "held"
                       /\ traversal' = r.traversal
                       /\ UNCHANGED outcome
    /\ UNCHANGED <<tree, other, leaves, agenda, it, leaf_count, strs, idx>>

\* Unflatten(leaves) is called on the held PyTreeSpec
UnflattenCall ==
    /\ UNCHANGED threads
    /\ pc = "held"
    /\ pc' = "Unflatten"
    /\ \E lv \in LeafSeqs : leaves' = lv
    /\ agenda' = <<>>
    /\ it' = 1
    /\ leaf_count' = 0
    /\ idx' = 1
    /\ UNCHANGED <<origin, tree, traversal, picklable, other, strs, outcome>>

\* UnflattenLoop taking each leaf out of the caller's sequence (the leaves
\* popped instead of read through the cursor)
UnflattenLoop_Draining ==
    /\ UNCHANGED threads
    /\ pc = "Unflatten"
    /\ idx <= Len(traversal)
    /\ LET r == UnflattenNode(traversal[idx], agenda, 1, leaf_count, leaves)
       IN  /\ agenda' = r.agenda
           /\ it' = 1
           /\ leaves' = IF r.it > 1 THEN Tail(leaves) ELSE leaves
           /\ leaf_count' = r.leaf_count
           /\ IF r.err # ""
              THEN /\ pc' = "done"
                   /\ outcome' = Outcome("Unflatten", r.err, NoneV, "", FALSE)
                   /\ UNCHANGED idx
              ELSE /\ idx' = idx + 1
                   /\ UNCHANGED <<pc, outcome>>
    /\ UNCHANGED <<origin, tree, traversal, picklable, other, strs>>

\* one pass of the loop of UnflattenImpl
UnflattenLoop ==
    /\ UNCHANGED threads
    /\ pc = "Unflatten"
    /\ idx <= Len(traversal)
    /\ LET r == UnflattenNode(traversal[idx], agenda, it, leaf_count, leaves)
       IN  /\ agenda' = r.agenda
           /\ it' = r.it
           /\ leaf_count' = r.leaf_count
           /\ IF r.err # ""
              THEN /\ pc' = "done"
                   /\ outcome' = Outcome("Unflatten", r.err, NoneV, "", FALSE)
                   /\ UNCHANGED idx
              ELSE /\ idx' = idx + 1
                   /\ UNCHANGED <<pc, outcome>>
    /\ UNCHANGED <<origin, tree, traversal, picklable, other, leaves, strs>>

\* the end of UnflattenImpl
UnflattenEnd ==
    /\ UNCHANGED threads
    /\ pc = "Unflatten"
    /\ idx > Len(traversal)
    /\ pc' = "done"
    /\ LET r == UnflattenReturn(agenda, it, leaves)
       IN  outcome' = Outcome("Unflatten", r.err, r.val, "", FALSE)
    /\ UNCHANGED <<origin, tree, traversal, picklable, other, leaves, agenda, it,
                   leaf_count, strs, idx>>

\* ToString() is called on the held PyTreeSpec
ToStringCall ==
    /\ UNCHANGED threads
    /\ pc = "held"
    /\ pc' = "ToString"
    /\ strs' = <<>>
    /\ idx' = 1
    /\ UNCHANGED <<origin, tree, traversal, picklable, other, leaves, agenda, it,
                   leaf_count, outcome>>

\* one pass of the loop of ToString
ToStringLoop ==
    /\ UNCHANGED threads
    /\ pc = "ToString"
    /\ idx <= Len(traversal)
    /\ \E r \in ToStringNode(traversal[idx], strs) :
           /\ strs' = r.strs
           /\ IF r.err # ""
              THEN /\ pc' = "done"
                   /\ outcome' = Outcome("ToString", r.err, NoneV, "", FALSE)
                   /\ UNCHANGED idx
              ELSE /\ idx' = idx + 1
                   /\ UNCHANGED <<pc, outcome>>
    /\ UNCHANGED <<origin, tree, traversal, picklable, other, leaves, agenda, it,
                   leaf_count>>

\* the end of ToString
ToStringEnd ==
    /\ UNCHANGED threads
    /\ pc = "ToString"
    /\ idx > Len(traversal)
    /\ pc' = "done"
    /\ LET r == ToStringReturn(strs)
       IN  outcome' = Outcome("ToString", r.err, NoneV, r.text, FALSE)
    /\ UNCHANGED <<origin, tree, traversal, picklable, other, leaves, agenda, it,
                   leaf_count, strs, idx>>

\* ToPicklable() is called on the held PyTreeSpec
Pickle ==
    /\ UNCHANGED threads
    /\ pc = "held"
    /\ pc' = "pickled"
    /\ picklable' = ToPicklable(traversal)
    /\ UNCHANGED <<origin, tree, traversal, other, leaves, agenda, it, leaf_count,
                   strs, idx, outcome>>

\* FromPicklable is handed what ToPicklable returned
Unpickle ==
    /\ UNCHANGED threads
    /\ pc = "pickled"
    /\ LET r == FromPicklableImpl(picklable)
       IN  IF r.err # ""
           THEN /\ pc' = "done"
                /\ outcome' = Outcome("Unpickle", r.err, NoneV, "", FALSE)
                /\ UNCHANGED other
           ELSE /\ pc' = "loaded"
                /\ other' = r.traversal
                /\ UNCHANGED outcome
    /\ UNCHANGED <<origin, tree, traversal, picklable, leaves, agenda, it, leaf_count,
                   strs, idx>>

\* the second PyTreeSpec is compared with the held one: other == *this
Compare ==
    /\ UNCHANGED threads
    /\ pc = "loaded"
    /\ pc' = "done"
    /\ outcome' = Outcome("==", "", NoneV, "", Equal(other, traversal))
    /\ UNCHANGED <<origin, tree, traversal, picklable, other, leaves, agenda, it,
                   leaf_count, strs, idx>>

\* two PyTreeSpecs are made by FromPicklable, to be compared
FromPicklablePair ==
    /\ UNCHANGED threads
    /\ pc = "start"
    /\ pc' = "loaded"
    /\ origin' = "picklable"
    /\ \E p \in PairPicklables, q \in PairPicklables :
           LET a == FromPicklableImpl(p)
               b == FromPicklableImpl(q)
           IN  /\ a.err = ""
               /\ b.err = ""
               /\ picklable' = p
               /\ traversal' = a.traversal
               /\ other' = b.traversal
    /\ UNCHANGED <<tree, leaves, agenda, it, leaf_count, strs, idx, outcome>>

Next ==
    \/ Flatten
    \/ FromPicklable
    \/ UnflattenCall
    \/ UnflattenLoop
    \/ UnflattenEnd
    \/ ToStringCall
    \/ ToStringLoop
    \/ ToStringEnd
    \/ Pickle
    \/ Unpickle
    \/ Compare

Spec == Init /\ [][Next]_vars

\* the comparison of any two PyTreeSpecs FromPicklable returns
NextEq ==
    \/ FromPicklablePair
    \/ Compare

SpecEq == Init /\ [][NextEq]_vars

-----------------------------------------------------------------------------
(* The operations run to their end, as functions of their arguments: the   *)
(* loops of the actions above, folded over the traversal.                  *)

\* UnflattenImpl over nodes i..k of t, from the locals st
RECURSIVE UnflattenFrom(_, _, _, _, _)
UnflattenFrom(t, lv, st, i, k) ==
    IF i > k \/ st.err # "" THEN st
    ELSE LET r == UnflattenNode(t[i], st.agenda, st.it, st.leaf_count, lv)
         IN  UnflattenFrom(t, lv,
                           [err |-> r.err, agenda |-> r.agenda, it |-> r.it,
                            leaf_count |-> r.leaf_count,
                            at |-> IF r.err # "" THEN i ELSE i + 1],
                           i + 1, k)

\* the locals of UnflattenImpl(lv) after the first k nodes of t; `at` is the
\* node the loop stands at, the one that threw when err # ""
UnflattenPrefix(t, lv, k) ==
    UnflattenFrom(t, lv, [err |-> "", agenda |-> <<>>, it |-> 1, leaf_count |-> 0,
                          at |-> 1], 1, k)

\* the error UnflattenImpl(lv) ends with on t, "" when it returns
UnflattenImpl(t, lv) ==
    LET st == UnflattenPrefix(t, lv, Len(t))
    IN  IF st.err # "" THEN st.err ELSE UnflattenReturn(st.agenda, st.it, lv).err

\* what Unflatten(lv) on t returns or throws
UnflattenResult(t, lv) ==
    LET st == UnflattenPrefix(t, lv, Len(t))
        r == UnflattenReturn(st.agenda, st.it, lv)
    IN  IF st.err # "" THEN Outcome("Unflatten", st.err, NoneV, "", FALSE)
        ELSE Outcome("Unflatten", r.err, r.val, "", FALSE)

\* what ToString() on t returns or throws, from node i on with agenda ag:
\* every outcome, as [err, text]
RECURSIVE ToStringRuns(_, _, _)
ToStringRuns(t, i, ag) ==
    IF i > Len(t) THEN {ToStringReturn(ag)}
    ELSE UNION {IF r.err # "" THEN {[err |-> r.err, text |-> ""]}
                ELSE ToStringRuns(t, i + 1, r.strs) :
                    r \in ToStringNode(t[i], ag)}

-----------------------------------------------------------------------------
(* Threads at work on one shared PyTreeSpec.  Each thread calls one of     *)
(* Unflatten, ToString, ToPicklable and == and runs it one pass of its     *)
(* loop at a time, with locals of its own; the passes of the threads       *)
(* interleave in any order.                                                *)

\* the structures whose PyTreeSpec is shared: leaves, None, tuples and lists
SharedTrees == {Relabel(x, 0) : x \in UNION {Shapes(FALSE, n) : n \in 1..MaxSharedNodes}}

\* the locals of thread t with the fields of `change` set
Locals(t, change) == [f \in DOMAIN threads[t] |->
                         IF f \in DOMAIN change THEN change[f] ELSE threads[t][f]]

\* a PyTreeSpec is made by flatten and handed to the threads
Share ==
    /\ pc = "start"
    /\ pc' = "shared"
    /\ origin' = "flatten"
    /\ \E x \in SharedTrees :
           /\ tree' = x
           /\ traversal' = FlattenSpec(x)
    /\ UNCHANGED <<picklable, other, leaves, agenda, it, leaf_count, strs, idx,
                   outcome, threads>>

\* thread t calls op on the shared PyTreeSpec
ThreadCall(t) ==
    /\ pc = "shared"
    /\ threads[t].pc = "idle"
    /\ \/ \E m \in 0..MaxSharedLeaves :
              threads' = [threads EXCEPT ![t] =
                  Locals(t, [pc |-> "Unflatten", leaves |-> [i \in 1..m |-> LeafV(i)]])]
       \/ \E op \in {"ToString", "ToPicklable", "=="} :
              threads' = [threads EXCEPT ![t] = Locals(t, [pc |-> op])]
    /\ UNCHANGED <<pc, origin, tree, traversal, picklable, other, leaves, agenda, it,
                   leaf_count, strs, idx, outcome>>

\* ThreadUnflattenLoop keeping the leaves taken so far in the node it has
\* walked (a write to the shared traversal)
ThreadUnflattenLoop_Caching(t) ==
    /\ pc = "shared"
    /\ threads[t].pc = "Unflatten"
    /\ threads[t].idx <= Len(traversal)
    /\ LET my == threads[t]
           r == UnflattenNode(traversal[my.idx], my.agenda, my.it, my.leaf_count, my.leaves)
       IN  /\ traversal' = [traversal EXCEPT ![my.idx].num_leaves = r.leaf_count]
           /\ threads' = [threads EXCEPT ![t] =
                  IF r.err # ""
                  THEN Locals(t, [pc |-> "done",
                                  outcome |-> Outcome("Unflatten", r.err, NoneV, "", FALSE)])
                  ELSE Locals(t, [agenda |-> r.agenda, it |-> r.it,
                                  leaf_count |-> r.leaf_count, idx |-> my.idx + 1])]
    /\ UNCHANGED <<pc, origin, tree, picklable, other, leaves, agenda, it,
                   leaf_count, strs, idx, outcome>>

\* one pass of the loop of UnflattenImpl in thread t
ThreadUnflattenLoop(t) ==
    /\ pc = "shared"
    /\ threads[t].pc = "Unflatten"
    /\ threads[t].idx <= Len(traversal)
    /\ LET my == threads[t]
           r == UnflattenNode(traversal[my.idx], my.agenda, my.it, my.leaf_count, my.leaves)
       IN  threads' = [threads EXCEPT ![t] =
               IF r.err # ""
               THEN Locals(t, [pc |-> "done",
                               outcome |-> Outcome("Unflatten", r.err, NoneV, "", FALSE)])
               ELSE Locals(t, [agenda |-> r.agenda, it |-> r.it,
                               leaf_count |-> r.leaf_count, idx |-> my.idx + 1])]
    /\ UNCHANGED <<pc, origin, tree, traversal, picklable, other, leaves, agenda, it,
                   leaf_count, strs, idx, outcome>>

\* the end of UnflattenImpl in thread t
ThreadUnflattenEnd(t) ==
    /\ pc = "shared"
    /\ threads[t].pc = "Unflatten"
    /\ threads[t].idx > Len(traversal)
    /\ LET my == threads[t]
           r == UnflattenReturn(my.agenda, my.it, my.leaves)
       IN  threads' = [threads EXCEPT ![t] =
               Locals(t, [pc |-> "done",
                          outcome |-> Outcome("Unflatten", r.err, r.val, "", FALSE)])]
    /\ UNCHANGED <<pc, origin, tree, traversal, picklable, other, leaves, agenda, it,
                   leaf_count, strs, idx, outcome>>

\* one pass of the loop of ToString in thread t
ThreadToStringLoop(t) ==
    /\ pc = "shared"
    /\ threads[t].pc = "ToString"
    /\ threads[t].idx <= Len(traversal)
    /\ \E r \in ToStringNode(traversal[threads[t].idx], threads[t].strs) :
           threads' = [threads EXCEPT ![t] =
               IF r.err # ""
               THEN Locals(t, [pc |-> "done",
                               outcome |-> Outcome("ToString", r.err, NoneV, "", FALSE)])
               ELSE Locals(t, [strs |-> r.strs, idx |-> threads[t].idx + 1])]
    /\ UNCHANGED <<pc, origin, tree, traversal, picklable, other, leaves, agenda, it,
                   leaf_count, strs, idx, outcome>>

\* the end of ToString in thread t
ThreadToStringEnd(t) ==
    /\ pc = "shared"
    /\ threads[t].pc = "ToString"
    /\ threads[t].idx > Len(traversal)
    /\ LET r == ToStringReturn(threads[t].strs)
       IN  threads' = [threads EXCEPT ![t] =
               Locals(t, [pc |-> "done",
                          outcome |-> Outcome("ToString", r.err, NoneV, r.text, FALSE)])]
    /\ UNCHANGED <<pc, origin, tree, traversal, picklable, other, leaves, agenda, it,
                   leaf_count, strs, idx, outcome>>

\* one pass of the loop of ToPicklable in thread t, and its return
ThreadToPicklableLoop(t) ==
    /\ pc = "shared"
    /\ threads[t].pc = "ToPicklable"
    /\ LET my == threads[t]
       IN  threads' = [threads EXCEPT ![t] =
               IF my.idx <= Len(traversal)
               THEN Locals(t, [result |-> Append(my.result,
                                                 ToPicklable(<<traversal[my.idx]>>)[1]),
                               idx |-> my.idx + 1])
               ELSE Locals(t, [pc |-> "done",
                               outcome |-> Outcome("ToPicklable", "", NoneV, "", FALSE)])]
    /\ UNCHANGED <<pc, origin, tree, traversal, picklable, other, leaves, agenda, it,
                   leaf_count, strs, idx, outcome>>

\* one pass of the loop of operator== in thread t, the shared PyTreeSpec
\* compared with itself, and its return
ThreadEqualLoop(t) ==
    /\ pc = "shared"
    /\ threads[t].pc = "=="
    /\ LET my == threads[t]
       IN  threads' = [threads EXCEPT ![t] =
               IF my.idx > Len(traversal)
               THEN Locals(t, [pc |-> "done",
                               outcome |-> Outcome("==", "", NoneV, "", TRUE)])
               ELSE IF ~Equal(<<traversal[my.idx]>>, <<traversal[my.idx]>>)
               THEN Locals(t, [pc |-> "done",
                               outcome |-> Outcome("==", "", NoneV, "", FALSE)])
               ELSE Locals(t, [idx |-> my.idx + 1])]
    /\ UNCHANGED <<pc, origin, tree, traversal, picklable, other, leaves, agenda, it,
                   leaf_count, strs, idx, outcome>>

NextThreads ==
    \/ Share
    \/ \E t \in Threads : ThreadCall(t)
    \/ \E t \in Threads : ThreadUnflattenLoop(t)
    \/ \E t \in Threads : ThreadUnflattenEnd(t)
    \/ \E t \in Threads : ThreadToStringLoop(t)
    \/ \E t \in Threads : ThreadToStringEnd(t)
    \/ \E t \in Threads : ThreadToPicklableLoop(t)
    \/ \E t \in Threads : ThreadEqualLoop(t)

SpecThreads == Init /\ [][NextThreads]_vars

-----------------------------------------------------------------------------
(* MakeNode and the loop body of ToString applied to one node, whatever    *)
(* the node: any kind with any node data, with or without a registration,  *)
(* over a stack of leaves (of "*" fragments for ToString).                 *)

NodePool ==
    {Node(kind, arity, data, custom, arity, arity + 1) :
        kind \in PyTreeKind, arity \in 0..MaxNodeArity,
        data \in {Null, PyList(Keys(MaxNodeArity)), PyBlob("aux")},
        custom \in Registry \cup {nullptr}}

InitNode ==
    /\ pc = "node"
    /\ origin = ""
    /\ tree = NoneV
    /\ \E node \in NodePool : traversal = <<node>>
    /\ picklable = <<>>
    /\ other = <<>>
    /\ leaves = <<>>
    /\ \E size \in 0..MaxNodeArity :
           /\ agenda = [i \in 1..size |-> LeafV(i)]
           /\ strs = [i \in 1..size |-> "*"]
    /\ it = 1
    /\ leaf_count = 0
    /\ idx = 1
    /\ outcome = NoOutcome
    /\ threads = [t \in Threads |-> Idle]

\* MakeNode(node, span over the whole stack)
MakeNodeCall ==
    /\ pc = "node"
    /\ pc' = "done"
    /\ \E r \in MakeNodeOutcomes(traversal[1], agenda) :
           outcome' = Outcome("MakeNode", r.err, r.val, "", FALSE)
    /\ UNCHANGED <<origin, tree, traversal, picklable, other, leaves, agenda, it,
                   leaf_count, strs, idx, threads>>

\* one pass of the loop body of ToString over the node
ToStringNodeCall ==
    /\ pc = "node"
    /\ pc' = "done"
    /\ \E r \in ToStringNode(traversal[1], strs) :
           /\ strs' = r.strs
           /\ outcome' = Outcome("ToStringNode", r.err, NoneV,
                                 IF r.err = "" THEN r.strs[Len(r.strs)] ELSE "", FALSE)
    /\ UNCHANGED <<origin, tree, traversal, picklable, other, leaves, agenda, it,
                   leaf_count, idx, threads>>

NextNode ==
    \/ MakeNodeCall
    \/ ToStringNodeCall

SpecNode == InitNode /\ [][NextNode]_vars

-----------------------------------------------------------------------------
(* The invariants a PyTreeSpec is meant to keep (what flatten guarantees): *)
(* kinds of the enumeration, no negative arity, Leaf and None without      *)
(* children, node data and registration as the kind asks, as many keys or  *)
(* fields as children, a traversal that is a post-order walk of one tree,  *)
(* and in every node the leaf and node totals of its subtree.              *)

\* the sum of field f over the sequence q of records
Sum(q, f) ==
    LET sum[i \in 0..Len(q)] == IF i = 0 THEN 0 ELSE sum[i - 1] + q[i][f]
    IN  sum[Len(q)]

NodeDataSuits(n) ==
    CASE n.kind \in {"Leaf", "None", "Tuple", "List"} -> n.node_data.tag = "null"
      [] n.kind = "Dict" -> n.node_data.tag = "list" /\ Len(n.node_data.keys) = n.arity
      [] n.kind = "NamedTuple" ->
           /\ n.node_data.tag = "type"
           /\ n.node_data.id \in NamedTupleTypes
           /\ Len(Fields(n.node_data.id)) = n.arity
      [] OTHER -> n.node_data.tag \in {"list", "tuple"} => Len(n.node_data.keys) = n.arity

\* nodes i.. of t, `below` the totals of the subtrees on the stack
RECURSIVE WellFormedFrom(_, _, _)
WellFormedFrom(t, i, below) ==
    IF i > Len(t) THEN Len(below) = 1
    ELSE LET n == t[i]
             sub == Top(below, n.arity)
             nl == IF n.kind = "Leaf" THEN 1 ELSE Sum(sub, "num_leaves")
             nn == 1 + Sum(sub, "num_nodes")
         IN  /\ n.kind \in PyTreeKind
             /\ n.arity >= 0
             /\ n.arity <= Len(below)
             /\ n.kind \in {"Leaf", "None"} => n.arity = 0
             /\ NodeDataSuits(n)
             /\ (n.custom # nullptr) <=> (n.kind = "Custom")
             /\ n.num_leaves = nl
             /\ n.num_nodes = nn
             /\ WellFormedFrom(t, i + 1,
                    Append(Erase(below, n.arity), [num_leaves |-> nl, num_nodes |-> nn]))

WellFormed(t) == WellFormedFrom(t, 1, <<>>)

\* the post-order walk over nodes i.. of t from a stack of `depth` items:
\* Leaf and None push one item, any other node pops arity items and pushes one
RECURSIVE PostOrderFrom(_, _, _)
PostOrderFrom(t, i, depth) ==
    IF i > Len(t) THEN depth = 1
    ELSE /\ t[i].arity <= depth
         /\ PostOrderFrom(t, i + 1,
                IF t[i].kind \in {"Leaf", "None"} THEN depth + 1
                ELSE depth - t[i].arity + 1)

\* never underflows and leaves exactly one item
PostOrderConsistent(t) == PostOrderFrom(t, 1, 0)

Done(op) == pc = "done" /\ outcome.op = op
Returned(op) == Done(op) /\ outcome.err = ""

-----------------------------------------------------------------------------
(* Claims. *)

\* C1: for every structure x of the supported kinds, Unflatten applied to
\* the PyTreeSpec and the leaves that flattening x yields returns a structure
\* equal to x (kinds and child order kept).
C1_RoundTrip ==
    (origin = "flatten" /\ Done("Unflatten") /\ leaves = FlattenLeaves(tree))
        => (outcome.err = "" /\ outcome.val = tree)

\* the number of Leaf nodes of a traversal
LeafNodes(t) == Cardinality({i \in 1..Len(t) : t[i].kind = "Leaf"})

\* C2: in Unflatten only Leaf nodes take an item from leaves: a call that
\* returns has taken as many leaves as the traversal has Leaf nodes, and the
\* node at which leaves run out is never a None node.
C2_NoneTakesNoLeaf ==
    Done("Unflatten") =>
        /\ outcome.err = "" => leaf_count = LeafNodes(traversal)
        /\ outcome.err = "ExhaustedLeaves" => traversal[idx].kind = "Leaf"

\* C3: for a well-formed PyTreeSpec with num_leaves() = n and m leaves given,
\* Unflatten returns iff m = n, throws for too few leaves when m < n and for
\* too many leaves when m > n.
C3_LeafCountDecides ==
    (Done("Unflatten") /\ WellFormed(traversal)) =>
        LET n == num_leaves(traversal)
            m == Len(leaves)
        IN  /\ (outcome.err = "") <=> (m = n)
            /\ m < n => outcome.err = "ExhaustedLeaves"
            /\ m > n => outcome.err = "TooManyLeaves"

\* C4: for every well-formed PyTreeSpec s, FromPicklable(s.ToPicklable())
\* returns a PyTreeSpec and that PyTreeSpec == s.
C4_PickleRoundTrip ==
    WellFormed(traversal) =>
        /\ Done("Unpickle") => outcome.err = ""
        /\ Done("==") => outcome.eq

\* C5: every PyTreeSpec FromPicklable returns has at least one node and a
\* traversal that is post-order consistent.
C5_DecodedIsConsistent ==
    (origin = "picklable" /\ pc = "held") =>
        (Len(traversal) >= 1 /\ PostOrderConsistent(traversal))

\* a node that carries a list of keys, and as many keys as children or not
HasKeyList(n) ==
    \/ n.kind = "Dict"
    \/ n.kind = "Custom" /\ n.node_data.tag \in {"list", "tuple"}
KeyMismatch(n) == HasKeyList(n) /\ Len(n.node_data.keys) # n.arity

\* a node with more keys than children: ToString reads past the agenda for
\* it when it is an OrderedDict node, and what follows is undefined
MoreKeys(n) == HasKeyList(n) /\ Len(n.node_data.keys) > n.arity

\* the leaves UnflattenImpl asks for on t: one for each node it takes a leaf at
Asked(t) ==
    [i \in 1..Cardinality({j \in 1..Len(t) : t[j].kind \in {"Leaf", "None"}}) |-> LeafV(i)]

\* C6: on every traversal, with the leaves Unflatten asks for, ToString and
\* Unflatten hold as many items after each node, find too few items at the
\* same node, and ToString throws for a malformed traversal exactly when
\* Unflatten does.  (Stated for the runs in which neither ends with another
\* error than that of a malformed traversal, on the traversals without a
\* node of more keys than children.)
C6_SameStackMachine ==
    LET u == UnflattenPrefix(traversal, Asked(traversal), Len(traversal))
        end == UnflattenImpl(traversal, Asked(traversal))
    IN  (\A i \in 1..Len(traversal) : ~MoreKeys(traversal[i])) =>
        /\ (pc = "ToString" /\ end \in {"", "MalformedSpec"}) =>
               LET v == UnflattenPrefix(traversal, Asked(traversal), idx - 1)
               IN  v.err = "" => Len(v.agenda) = Len(strs)
        /\ (Done("ToString") /\ outcome.err \in {"", "MalformedSpec"}
            /\ end \in {"", "MalformedSpec"}) =>
               /\ (outcome.err = "MalformedSpec") <=> (end = "MalformedSpec")
               /\ (outcome.err = "MalformedSpec" /\ idx <= Len(traversal))
                      => (u.err = "MalformedSpec" /\ u.at = idx)

\* C7: ToString throws for mismatched keys at every Dict node, and every
\* Custom node with a key list, whose number of keys is not its arity: it
\* never returns text for a traversal with such a node, and at such a node
\* (with its children on the agenda) it ends in no other way.  (Stated for
\* the traversals without a node of more keys than children, so that no
\* outcome of an undefined read is counted against the claim.)
C7_KeyCountChecked ==
    (\A i \in 1..Len(traversal) : ~MoreKeys(traversal[i])) =>
        /\ Returned("ToString") =>
               \A i \in 1..Len(traversal) : ~KeyMismatch(traversal[i])
        /\ (Done("ToString") /\ outcome.err # "" /\ idx <= Len(traversal)
            /\ KeyMismatch(traversal[idx]) /\ Len(strs) >= traversal[idx].arity)
               => outcome.err = "AuxMismatch"

\* the largest arity of a node of t, 0 for no node
MaxArityOf(t) ==
    IF t = <<>> THEN 0
    ELSE CHOOSE a \in {t[i].arity : i \in 1..Len(t)} :
             \A i \in 1..Len(t) : t[i].arity <= a

\* the nodes without children among the first k nodes of t
Childless(t, k) == Cardinality({i \in 1..k : i <= Len(t) /\ t[i].arity = 0})

\* C8 as stated: while Unflatten or ToString walks a well-formed traversal,
\* the agenda holds at most as many items as the largest arity of its nodes
\* (one item, for a traversal whose nodes have no children).
C8_StackWithinMaxArity ==
    LET bound == IF MaxArityOf(traversal) = 0 THEN 1 ELSE MaxArityOf(traversal)
    IN  WellFormed(traversal) =>
            /\ pc = "Unflatten" => Len(agenda) <= bound
            /\ pc = "ToString" => Len(strs) <= bound

\* C8, amended: while Unflatten or ToString walks a well-formed traversal,
\* the agenda holds at most as many items as there are nodes without children
\* among the nodes walked so far.
C8_StackWithinChildless ==
    WellFormed(traversal) =>
        /\ (pc = "Unflatten" \/ Done("Unflatten"))
               => Len(agenda) <= Childless(traversal, idx - 1)
        /\ (pc = "ToString" \/ Done("ToString"))
               => Len(strs) <= Childless(traversal, idx - 1)

\* Unflatten walks a well-formed traversal with a container in it and holds
\* more items than the largest arity
C8_Witness ==
    /\ pc = "Unflatten"
    /\ WellFormed(traversal)
    /\ MaxArityOf(traversal) >= 1
    /\ Len(agenda) > MaxArityOf(traversal)

\* C9: two PyTreeSpecs that compare equal have the same num_leaves and
\* num_nodes in every node, and so the same num_leaves().
C9_EqualImpliesSameCounts ==
    (Done("==") /\ outcome.eq) =>
        /\ \A i \in 1..Len(traversal) :
               /\ traversal[i].num_leaves = other[i].num_leaves
               /\ traversal[i].num_nodes = other[i].num_nodes
        /\ num_leaves(traversal) = num_leaves(other)

\* C10: an Unflatten that walks the whole traversal of a held PyTreeSpec
\* has taken num_leaves() leaves.
C10_WalkTakesNumLeaves ==
    Returned("Unflatten") => leaf_count = num_leaves(traversal)

-----------------------------------------------------------------------------
(* FromPicklable's checks of one record. *)

\* the record at which FromPicklableImpl(p) throws, 0 when it returns
FirstRejected(p) ==
    IF \A i \in 1..Len(p) : FromRecord(p[i]).err = "" THEN 0
    ELSE CHOOSE i \in 1..Len(p) :
             /\ FromRecord(p[i]).err # ""
             /\ \A j \in 1..(i - 1) : FromRecord(p[j]).err = ""

\* a record with node data where its kind has none, or without node data
\* where its kind has some
AuxUnsuited(r) ==
    \/ r.kind \in {"Leaf", "None", "Tuple", "List"} /\ r.aux.tag # "None"
    \/ r.kind \in {"NamedTuple", "Dict", "Custom"} /\ r.aux.tag = "None"

\* C11: FromPicklable throws for a malformed pickle at every record that is
\* not a tuple of 6 items and at every record whose node data does not suit
\* its kind (present on Leaf, None, Tuple, List; absent on NamedTuple, Dict,
\* Custom); no PyTreeSpec it returns has a node made from such a record.
C11_MalformedRejected ==
    origin = "picklable" =>
        /\ pc = "held" =>
               \A i \in 1..Len(picklable) :
                   picklable[i].size = 6 /\ ~AuxUnsuited(picklable[i])
        /\ Done("FromPicklable") =>
               LET r == picklable[FirstRejected(picklable)]
               IN  (r.size # 6 \/ AuxUnsuited(r)) => outcome.err = "MalformedEncoding"

\* a record of 6 items whose node data passes FromPicklable's conversion
\* for its kind, so that the checks of the type are reached
AuxAccepted(r) ==
    /\ r.size = 6
    /\ CASE r.kind = "NamedTuple" -> r.aux.tag = "type"
          [] r.kind = "Dict" -> Iterable(r.aux)
          [] r.kind = "Custom" -> TRUE
          [] OTHER -> r.aux.tag = "None"

\* C12: in every PyTreeSpec FromPicklable returns, a node has a registration
\* iff its kind is Custom; a Custom record without a type, or with a type the
\* registry does not know, makes FromPicklable throw for an unknown custom
\* type, and a record of another kind with a type makes it throw for a
\* malformed pickle.
C12_RegistrationIffCustom ==
    origin = "picklable" =>
        /\ pc = "held" =>
               \A i \in 1..Len(traversal) :
                   /\ (traversal[i].custom # nullptr) <=> (traversal[i].kind = "Custom")
                   /\ picklable[i].kind = "Custom" => Lookup(picklable[i].type) # nullptr
                   /\ picklable[i].kind # "Custom" => picklable[i].type.tag = "None"
        /\ Done("FromPicklable") =>
               LET r == picklable[FirstRejected(picklable)]
               IN  AuxAccepted(r) =>
                       /\ (r.kind = "Custom" /\ Lookup(r.type) = nullptr)
                              => outcome.err = "UnknownRegistration"
                       /\ (r.kind # "Custom" /\ r.type.tag # "None")
                              => outcome.err = "MalformedEncoding"

\* FromPicklable has taken a Custom record with a registered type and has
\* thrown at a second Custom record, whose type is not registered
C12_Witness ==
    /\ Done("FromPicklable")
    /\ outcome.err = "UnknownRegistration"
    /\ Len(picklable) = 2
    /\ picklable[1].kind = "Custom"
    /\ picklable[2].kind = "Custom"
    /\ picklable[2].type.tag = "type"

-----------------------------------------------------------------------------
(* operator== as a relation. *)

\* two traversals of different lengths, or with a position at which the
\* kinds, the arities, the node data (present or not, and their values) or
\* the registrations differ
Differ(a, b) ==
    \/ Len(a) # Len(b)
    \/ \E i \in 1..Len(a) :
           \/ a[i].kind # b[i].kind
           \/ a[i].arity # b[i].arity
           \/ a[i].node_data # b[i].node_data
           \/ a[i].custom # b[i].custom

\* C13: == is reflexive and symmetric over the PyTreeSpecs held, the
\* comparison made returns what the comparison the other way round returns,
\* and it returns false for two traversals that differ in length or, at some
\* position, in kind, arity, node data or registration.
C13_EqualReflexiveSymmetric ==
    pc \in {"loaded", "done"} =>
        /\ Equal(traversal, traversal)
        /\ Equal(other, other)
        /\ Equal(traversal, other) = Equal(other, traversal)
        /\ Done("==") => outcome.eq = Equal(traversal, other)
        /\ Differ(traversal, other) => ~Equal(other, traversal)
        /\ (Done("==") /\ Differ(traversal, other)) => ~outcome.eq

\* two PyTreeSpecs of one node each that differ in the node data only have
\* been compared
C13_Witness ==
    /\ Done("==")
    /\ ~outcome.eq
    /\ Len(traversal) = 1
    /\ Len(other) = 1
    /\ traversal[1].kind = other[1].kind
    /\ traversal[1].arity = other[1].arity
    /\ traversal[1].custom = other[1].custom
    /\ traversal[1].node_data.tag = other[1].node_data.tag
    /\ traversal[1].node_data # other[1].node_data

-----------------------------------------------------------------------------
(* What a failed Unflatten leaves behind. *)

-----------------------------------------------------------------------------
(* Threads that read one PyTreeSpec. *)

\* C15: Unflatten, ToString, == and ToPicklable only read the PyTreeSpec:
\* under every interleaving of threads running them on one shared
\* PyTreeSpec, no step changes its traversal, and each call ends with what
\* the same call returns when it runs alone.
C15_ReadersDoNotInterfere ==
    /\ [][pc = "shared" => traversal' = traversal]_vars
    /\ [](\A t \in Threads :
              threads[t].pc = "done" =>
                  LET my == threads[t]
                  IN  CASE my.outcome.op = "Unflatten" ->
                               my.outcome = UnflattenResult(traversal, my.leaves)
                        [] my.outcome.op = "ToString" ->
                               [err |-> my.outcome.err, text |-> my.outcome.text]
                                   \in ToStringRuns(traversal, 1, <<>>)
                        [] my.outcome.op = "ToPicklable" ->
                               my.result = ToPicklable(traversal)
                        [] OTHER -> my.outcome.eq = Equal(traversal, traversal))

\* two threads are in the middle of their walks at once, one in Unflatten
\* and one in ToString, while a third call has returned or no other thread
\* is left
C15_Witness ==
    \E t, u \in Threads :
        /\ threads[t].pc = "Unflatten"
        /\ threads[t].idx = 2
        /\ threads[u].pc = "ToString"
        /\ threads[u].idx = 2
        /\ Len(traversal) = 2

-----------------------------------------------------------------------------
(* The stack discipline on any traversal, and the nodes FromPicklable lets *)
(* through.                                                                *)

\* C16: in Unflatten and in ToString, on every traversal held (those from
\* FromPicklable with any arity included), no node removes more items than
\* the agenda holds: a node that finds fewer items than its arity makes the
\* call throw for a malformed traversal, every removal made is of a number
\* of items from 0 to the size of the agenda (never an undefined one), and a
\* call that returns ended with exactly one item.  (The removals of ToString
\* are stated for the traversals without a node of more keys than children,
\* whose undefined read is another matter.)
C16_NoUnderflow ==
    /\ Returned("Unflatten") => Len(agenda) = 1
    /\ Returned("ToString") => Len(strs) = 1
    /\ (Done("Unflatten") /\ outcome.err # "" /\ idx <= Len(traversal)
        /\ Len(agenda) < traversal[idx].arity) => outcome.err = "MalformedSpec"
    /\ (Done("ToString") /\ outcome.err # "" /\ idx <= Len(traversal)
        /\ Len(strs) < traversal[idx].arity) => outcome.err = "MalformedSpec"
    /\ (pc = "Unflatten" \/ Done("Unflatten")) =>
           \A j \in 1..(idx - 1) :
               j <= Len(traversal) /\ traversal[j].kind \notin {"Leaf", "None"}
                   => traversal[j].arity >= 0
    /\ ((pc = "ToString" \/ Done("ToString"))
        /\ \A i \in 1..Len(traversal) : ~MoreKeys(traversal[i])) =>
           /\ outcome.err # "Crash"
           /\ \A j \in 1..(idx - 1) : j <= Len(traversal) => traversal[j].arity >= 0

\* C17: an Unflatten that returns the mapping of a Dict node with n children
\* and keys k_1..k_m has m = n and has built the mapping of the entries
\* (k_1, c_1), ..., (k_n, c_n) in this order: no key and no child dropped,
\* merged or moved.  (Stated for the Dict node that is the root.)
C17_DictZipsAllKeys ==
    (Returned("Unflatten") /\ traversal[Len(traversal)].kind = "Dict") =>
        LET node == traversal[Len(traversal)]
        IN  /\ Len(node.node_data.keys) = node.arity
            /\ outcome.val.k = "dict"
            /\ outcome.val.d.keys = node.node_data.keys
            /\ Len(outcome.val.c) = node.arity

C19_DecodedKindAndArity ==
    origin = "picklable" =>
        /\ pc = "held" =>
               \A i \in 1..Len(traversal) :
                   traversal[i].kind \in PyTreeKind /\ traversal[i].arity >= 0
        /\ (Done("Unflatten") \/ Done("ToString")) => outcome.err # "Unreachable"

=============================================================================
